---- MODULE Spec2Model ----
(***************************************************************************)
(* Model of the portfolio site's configuration module, the icon adapter    *)
(* (src/fontAwesomeResize.ts) and the Header / ProfilePicture components    *)
(* (src/components/Header.astro).                                           *)
(*                                                                          *)
(* The process is single-threaded.  A module is evaluated statement by     *)
(* statement the first time it is imported and is served from the module   *)
(* cache afterwards.  Components are rendered only while no module          *)
(* evaluation is in progress.                                               *)
(***************************************************************************)
EXTENDS Integers, Sequences, FiniteSets, TLC

VARIABLES
    lit,            \* the literal data written in the configuration source
    loaded,         \* module cache: the modules evaluated so far
    hPc,            \* Header frontmatter: 0 not requested, i = at import i, Len+1 = loaded
    aPc,            \* adapter module: 0 not evaluating, i = at step i of its evaluation
    caller,         \* who waits for the adapter module's evaluation
    autoAddCss,     \* config.autoAddCss of the icon library
    cssLoaded,      \* styles.css of the icon library has been imported
    env,            \* exported bindings of the configuration: name -> value
    flagWrites,     \* number of executions of `config.autoAddCss = false`
    iconRenders,    \* number of FontAwesomeIcon render calls
    autoCssAdded,   \* the icon library injected its own stylesheet at a render
    headerRenders,  \* number of Header renders
    headerOut,      \* markup of the last Header render
    avatarRenders,  \* number of ProfilePicture renders
    avatarOut,      \* markup of the last ProfilePicture render
    socialRenders,  \* number of renders of the social-link list
    socialOut,      \* social links of the last render, in rendered order
    clicks,         \* clicks on button#magnifying-glass
    otherImports,   \* imports of the adapter module by other components
    consumerWrites, \* assignments to configuration fields by consumers
    peers,          \* the other worker processes of a parallel build, each
                    \* with its own module instances: worker -> its state
    docker,         \* blog post, Docker scripts: images and containers on the host
    main,           \* blog post, Docker scripts: position and history of main.py
    auth            \* blog post, Deno server: one request through authorize()

vars == <<lit, loaded, hPc, aPc, caller, autoAddCss, cssLoaded, env, flagWrites,
          iconRenders, autoCssAdded, headerRenders, headerOut, avatarRenders,
          avatarOut, socialRenders, socialOut, clicks, otherImports,
          consumerWrites, peers, docker, main, auth>>

\* The state of the scripts and the server described in the blog posts.
blog == <<docker, main, auth>>

----------------------------------------------------------------------------
(* Bounds *)

MaxRenders == 2

MaxClicks == 2

MaxImports == 2

MaxReinit == 2

MaxWrites == 1

MaxPeers == 1

----------------------------------------------------------------------------
(* Literal configuration data, src/fontAwesomeResize.ts lines 22-66.       *)
(* URLs are sequences of characters so that their shape can be examined.   *)

baseUrl ==
    <<"h","t","t","p","s",":","/","/","s","i","m","e","o","n","a","t",".",
      "g","i","t","h","u","b",".","i","o">>

SITE ==
    [TITLE |-> "Simeon Tran",
     DESCRIPTION |-> "Computer Science Graduate Student",
     EMAIL |-> "",
     NUM_POSTS_ON_HOMEPAGE |-> 5,
     NUM_PROJECTS_ON_HOMEPAGE |-> 0]

HOME ==
    [TITLE |-> "Home", DESCRIPTION |-> "My personal website and blog."]

HOME_2 ==
    [TITLE |-> "Home",
     DESCRIPTION |-> "Astro Micro is an accessible theme for Astro."]

BLOG ==
    [TITLE |-> "Blog",
     DESCRIPTION |-> "Blog posts on research projects that I am currently working on."]

PROJECTS ==
    [TITLE |-> "Projects", DESCRIPTION |-> "Projects that I am proud of."]

GitHubHref ==
    <<"h","t","t","p","s",":","/","/","g","i","t","h","u","b",".","c","o","m",
      "/","s","i","m","e","o","n","a","t">>

LinkedInHref ==
    <<"h","t","t","p","s",":","/","/","w","w","w",".","l","i","n","k","e","d",
      "i","n",".","c","o","m","/","i","n","/","s","i","m","e","o","n","-",
      "t","r","a","n","/">>

SOCIALS_reordered ==
    <<[NAME |-> "LinkedIn", HREF |-> LinkedInHref, icon |-> "faLinkedin", end |-> TRUE],
      [NAME |-> "GitHub", HREF |-> GitHubHref, icon |-> "faGithub", end |-> FALSE]>>

SOCIALS_noHref ==
    <<[NAME |-> "GitHub", HREF |-> <<>>, icon |-> "faGithub", end |-> FALSE],
      [NAME |-> "LinkedIn", HREF |-> LinkedInHref, icon |-> "faLinkedin", end |-> TRUE]>>

SOCIALS_noEnd ==
    <<[NAME |-> "GitHub", HREF |-> GitHubHref, icon |-> "faGithub", end |-> FALSE],
      [NAME |-> "LinkedIn", HREF |-> LinkedInHref, icon |-> "faLinkedin", end |-> FALSE]>>

SOCIALS ==
    <<[NAME |-> "GitHub", HREF |-> GitHubHref, icon |-> "faGithub", end |-> FALSE],
      [NAME |-> "LinkedIn", HREF |-> LinkedInHref, icon |-> "faLinkedin", end |-> TRUE]>>

\* The literals as one record: what the configuration source text says.
SourceLiterals ==
    [baseUrl |-> baseUrl, SITE |-> SITE, HOME |-> HOME, HOME_2 |-> HOME_2,
     BLOG |-> BLOG, PROJECTS |-> PROJECTS, SOCIALS |-> SOCIALS]

\* Other configurations a site author could write in the same source.
Titles == {"Simeon Tran", "", "Search"}

\* A social-link list whose entry has no target: HREF is the empty string.
MalformedSocials ==
    <<[NAME |-> "GitHub", HREF |-> <<>>, icon |-> "faGithub", end |-> TRUE]>>

SocialLists == {SOCIALS, <<>>, <<SOCIALS[2]>>, MalformedSocials}

\* The literals with every value the Header's title link does not show
\* replaced by another one.
AlteredLiterals ==
    [baseUrl |-> <<"h","t","t","p",":","/","/","l","o","c","a","l","h","o","s","t">>,
     SITE |-> [TITLE |-> "Simeon Tran", DESCRIPTION |-> "Another description",
               EMAIL |-> "me@example.org", NUM_POSTS_ON_HOMEPAGE |-> 3,
               NUM_PROJECTS_ON_HOMEPAGE |-> 2],
     HOME |-> [TITLE |-> "Start", DESCRIPTION |-> "First"],
     HOME_2 |-> [TITLE |-> "Start", DESCRIPTION |-> "Second"],
     BLOG |-> [TITLE |-> "Posts", DESCRIPTION |-> "Posts"],
     PROJECTS |-> [TITLE |-> "Work", DESCRIPTION |-> "Work"],
     SOCIALS |-> SOCIALS]

Configurations ==
    {[base EXCEPT !.SITE = [base.SITE EXCEPT !.TITLE = t], !.SOCIALS = s] :
        base \in {SourceLiterals, AlteredLiterals}, t \in Titles, s \in SocialLists}

----------------------------------------------------------------------------
(* Modules and the module cache *)

\* The module in src/fontAwesomeResize.ts: the icon adapter and the
\* configuration constants live in this one file.
Adapter == "fontAwesomeResize"

IconCore == "@fortawesome/fontawesome-svg-core"

IconStyles == "@fortawesome/fontawesome-svg-core/styles.css"

\* Header.astro lines 2-8, in source order.
HeaderImports ==
    <<"@components/Container.astro", "@components/Link.astro", "@consts",
      "../fontAwesomeResize", "@fortawesome/free-solid-svg-icons",
      "@fortawesome/react-fontawesome">>

AdapterImports_noStyles ==
    <<IconCore, "@fortawesome/free-brands-svg-icons">>

\* fontAwesomeResize.ts lines 10, 15, 20 (imports are hoisted above the
\* module body; the type-only import of line 18 is erased).
AdapterImports ==
    <<IconStyles, IconCore, "@fortawesome/free-brands-svg-icons">>

Declarations_short ==
    <<"baseUrl", "SITE", "HOME", "HOME_2", "BLOG", "PROJECTS">>

\* fontAwesomeResize.ts lines 22-66: the declarations in source order.
\* HOME is declared twice (lines 32 and 37).
Declarations ==
    <<"baseUrl", "SITE", "HOME", "HOME_2", "BLOG", "PROJECTS", "SOCIALS">>

\* The exported name a declaration binds.
BindingName(d) == IF d = "HOME_2" THEN "HOME" ELSE d

\* "@consts" and "../fontAwesomeResize" both name the module that defines
\* SITE and sets config.autoAddCss.
Resolve(specifier) ==
    IF specifier \in {"@consts", "../fontAwesomeResize"} THEN Adapter ELSE specifier

IsCached_never(m) == FALSE

\* A module is evaluated once; later imports are served from the cache.
IsCached(m) == m \in loaded

\* Evaluating the icon library creates its config object with the library's
\* default, automatic stylesheet injection on.
EvaluateLibrary(m) ==
    /\ loaded' = loaded \cup {m}
    /\ autoAddCss' = IF m = IconCore THEN TRUE ELSE autoAddCss
    /\ cssLoaded' = IF m = IconStyles THEN TRUE ELSE cssLoaded

HeaderLoaded == Len(HeaderImports) + 1

FlagStep == Len(AdapterImports) + 1

LastStep == FlagStep + Len(Declarations)

\* No module evaluation is in progress: components may be rendered.
Idle == aPc = 0 /\ hPc \in {0, HeaderLoaded}

----------------------------------------------------------------------------
(* Markup *)

Open(tag, attrs) == [k |-> "open", tag |-> tag, attrs |-> attrs, text |-> ""]

Text(s) == [k |-> "text", tag |-> "", attrs |-> {}, text |-> s]

Close(tag) == [k |-> "close", tag |-> tag, attrs |-> {}, text |-> ""]

ButtonClass ==
    "flex items-center rounded border border-black/15 bg-neutral-100 px-2 py-1 text-lg transition-colors duration-300 ease-in-out hover:bg-black/5 hover:text-black focus-visible:bg-black/5 focus-visible:text-black dark:border-white/20 dark:bg-neutral-900 dark:hover:bg-white/5 dark:hover:text-white dark:focus-visible:bg-white/5 dark:focus-visible:text-white mr-3 ml-3"

TitleLink_outside(site) ==
    <<Open("Link", {<<"href", "/">>, <<"underline", "false">>}),
      Close("Link"),
      Open("div", {<<"class", "font-semibold text-xl">>}),
      Text(site.TITLE),
      Close("div")>>

TitleLink_counting(site) ==
    <<Open("Link", {<<"href", "/">>, <<"underline", "false">>}),
      Open("div", {<<"class", "font-semibold text-xl">>}),
      Text(IF headerRenders = 0 THEN site.TITLE ELSE site.DESCRIPTION),
      Close("div"),
      Close("Link")>>

TitleLink_skipEmpty(site) ==
    IF site.TITLE = "" THEN <<>>
    ELSE <<Open("Link", {<<"href", "/">>, <<"underline", "false">>}),
           Open("div", {<<"class", "font-semibold text-xl">>}),
           Text(site.TITLE),
           Close("div"),
           Close("Link")>>

TitleLink_withDescription(site) ==
    <<Open("Link", {<<"href", "/">>, <<"underline", "false">>,
                    <<"title", site.DESCRIPTION>>}),
      Open("div", {<<"class", "font-semibold text-xl">>}),
      Text(site.TITLE),
      Close("div"),
      Close("Link")>>

\* Header.astro lines 15-19: the site title, linking home.
TitleLink(site) ==
    <<Open("Link", {<<"href", "/">>, <<"underline", "false">>}),
      Open("div", {<<"class", "font-semibold text-xl">>}),
      Text(site.TITLE),
      Close("div"),
      Close("Link")>>

NavLinks_swapped ==
    <<Open("Link", {<<"href", "/blog">>}),
      Text("Blog"),
      Close("Link"),
      Open("span", {}),
      Text("/"),
      Close("span"),
      Open("Link", {<<"href", "/files/Simeon-Tran-CV.pdf">>}),
      Text("CV"),
      Close("Link"),
      Open("span", {}),
      Text("/"),
      Close("span")>>

\* Header.astro lines 25-32: the CV and Blog links with their separators.
NavLinks ==
    <<Open("Link", {<<"href", "/files/Simeon-Tran-CV.pdf">>}),
      Text("CV"),
      Close("Link"),
      Open("span", {}),
      Text("/"),
      Close("span"),
      Open("Link", {<<"href", "/blog">>}),
      Text("Blog"),
      Close("Link"),
      Open("span", {}),
      Text("/"),
      Close("span")>>

SearchButton_noLabel ==
    <<Open("button", {<<"id", "magnifying-glass">>, <<"class", ButtonClass>>}),
      Open("div", {<<"class", "mr-2">>}),
      Open("FontAwesomeIcon", {<<"icon", "faMagnifyingGlass">>}),
      Close("FontAwesomeIcon"),
      Close("div"),
      Text("Search"),
      Close("button")>>

\* Header.astro lines 33-42: the search trigger with its icon.
SearchButton ==
    <<Open("button", {<<"id", "magnifying-glass">>, <<"aria-label", "Search">>,
                      <<"class", ButtonClass>>}),
      Open("div", {<<"class", "mr-2">>}),
      Open("FontAwesomeIcon", {<<"icon", "faMagnifyingGlass">>}),
      Close("FontAwesomeIcon"),
      Close("div"),
      Text("Search"),
      Close("button")>>

\* Header.astro lines 12-46: the template, in document order.
HeaderMarkup(site) ==
    <<Open("header", {<<"transition:persist", "">>}),
      Open("Container", {}),
      Open("div", {<<"class", "flex flex-wrap justify-between gap-y-2">>})>>
    \o TitleLink(site)
    \o <<Open("nav", {<<"class", "flex items-center gap-1 text-sm">>})>>
    \o NavLinks
    \o SearchButton
    \o <<Close("nav"), Close("div"), Close("Container"), Close("header")>>

ProfilePictureMarkup_medium ==
    <<Open("div", {<<"className", "flex flex-wrap gap-2">>}),
      Open("Avatar", {<<"img", "/profile-pixel-art-upscaled.png">>,
                      <<"rounded", "true">>, <<"size", "md">>,
                      <<"bordered", "true">>}),
      Close("Avatar"),
      Close("div")>>

\* Header.astro lines 55-61.
ProfilePictureMarkup ==
    <<Open("div", {<<"className", "flex flex-wrap gap-2">>}),
      Open("Avatar", {<<"img", "/profile-pixel-art-upscaled.png">>,
                      <<"rounded", "true">>, <<"size", "xl">>,
                      <<"bordered", "true">>}),
      Close("Avatar"),
      Close("div")>>

\* The navigation renderer of the social links: one link per entry, mapped
\* over the list front to back.
RECURSIVE SocialsMarkup(_)
SocialsMarkup(socials) ==
    IF socials = <<>> THEN <<>>
    ELSE <<[href |-> Head(socials).HREF, text |-> Head(socials).NAME]>>
         \o SocialsMarkup(Tail(socials))

\* Number of icon components in a markup: each is one icon render call.
IconCount(markup) ==
    Cardinality({i \in 1..Len(markup) :
        markup[i].k = "open" /\ markup[i].tag = "FontAwesomeIcon"})

----------------------------------------------------------------------------
(* State and operations *)

EmptyEnv == [n \in {} |-> 0]

\* An export declaration binds its name to the value of its initialiser; a
\* later declaration of the same name replaces the earlier binding.
Bind(e, name, value) ==
    [n \in DOMAIN e \cup {name} |-> IF n = name THEN value ELSE e[n]]

\* The worker processes besides this one.
Peers == 1..MaxPeers

\* A worker process at its start: nothing imported, the icon library's
\* default in force, no configuration bound.
PeerStart ==
    [pc |-> "start", autoAddCss |-> TRUE, cssLoaded |-> FALSE, env |-> EmptyEnv,
     flagWrites |-> 0, iconRenders |-> 0, headerOut |-> <<>>]

\* All declarations of the configuration module from the i-th on, in
\* source order.
RECURSIVE DeclareAll(_, _, _)
DeclareAll(e, i, l) ==
    IF i > Len(Declarations) THEN e
    ELSE DeclareAll(Bind(e, BindingName(Declarations[i]), l[Declarations[i]]),
                    i + 1, l)

\* obj.field = value on a plain object literal: the property is writable,
\* the assignment stores the value.
AssignField(obj, field, value) == [obj EXCEPT ![field] = value]

WriteAutoAddCss_true(current) == TRUE

WriteAutoAddCss_toggle(current) == ~current

\* fontAwesomeResize.ts line 17: the value stored in config.autoAddCss.
WriteAutoAddCss(current) == FALSE

----------------------------------------------------------------------------
(* Blog post "Using Python to Automatically Update my Docker Containers":  *)
(* main.py and its services, content/blog/docker-scripts/index.md.         *)

\* image.json (lines 69-74): the images in file order, with their tags.
ImageList == <<"vaultwarden/server", "gitea/gitea">>

ImageTag(name) == IF name = "vaultwarden/server" THEN "latest" ELSE "nightly"

\* f'{name}:{tag}'
Tagged(name) == <<name, ImageTag(name)>>

\* container.json (lines 37-59): the containers in file order, keyed by
\* image name.
ContainerList == <<"vaultwarden/server", "gitea/gitea">>

\* get_container_name(image_name): the container's name on the host.
ContainerName(image_name) == <<"container", image_name>>

\* A container on the host that container.json does not mention.
OtherContainer == <<"container", "other">>

HostContainers ==
    <<ContainerName(ContainerList[1]), ContainerName(ContainerList[2]),
      OtherContainer>>

ContainerIds == {HostContainers[i] : i \in 1..Len(HostContainers)}

\* The states the Docker host can be in when main.py starts.
DockerStates ==
    [images : SUBSET {Tagged(ImageList[i]) : i \in 1..Len(ImageList)},
     containers : [ContainerIds -> {"absent", "running", "exited"}]]

DockerEmpty ==
    [images |-> {}, containers |-> [c \in ContainerIds |-> "absent"]]

MainOff == [pc |-> "off", i |-> 1, todo |-> <<>>, log |-> <<>>, start |-> DockerEmpty]

\* client.containers.list(): the running containers.
RECURSIVE RunningFrom(_, _)
RunningFrom(d, i) ==
    IF i > Len(HostContainers) THEN <<>>
    ELSE (IF d.containers[HostContainers[i]] = "running"
             THEN <<HostContainers[i]>> ELSE <<>>)
         \o RunningFrom(d, i + 1)

ContainersList(d) == RunningFrom(d, 1)

\* main.py (lines 267-287): the statement that follows a statement which
\* returned normally.
AfterPhase_imagesFirst(phase) ==
    CASE phase = "connect" -> "images_exist"
      [] phase = "images_exist" -> "containers_running"
      [] phase = "containers_running" -> "image_delete"
      [] phase = "image_delete" -> "container_delete"
      [] phase = "container_delete" -> "download"
      [] phase = "except" -> "download"
      [] phase = "download" -> "run"
      [] phase = "run" -> "done"

AfterPhase(phase) ==
    CASE phase = "connect" -> "images_exist"
      [] phase = "images_exist" -> "containers_running"
      [] phase = "containers_running" -> "container_delete"
      [] phase = "container_delete" -> "image_delete"
      [] phase = "image_delete" -> "download"
      [] phase = "except" -> "download"
      [] phase = "download" -> "run"
      [] phase = "run" -> "done"

\* Control passes to the statement after the current one.
Enter(phase, d) ==
    [main EXCEPT !.pc = phase, !.i = 1,
                 !.todo = IF phase = "container_delete"
                             THEN ContainersList(d) ELSE <<>>]

\* The loop of the current statement moves to its next item, or the
\* statement returns.
Advance(n, d) ==
    IF main.i < n THEN [main EXCEPT !.i = @ + 1]
    ELSE Enter(AfterPhase(main.pc), d)

\* An exception inside the try block: control passes to the except clause.
Raise == [main EXCEPT !.pc = "except"]

Logged(m, op, item) == [m EXCEPT !.log = Append(@, [op |-> op, item |-> item])]

----------------------------------------------------------------------------
(* Blog post on GraphQL authorization with Deno: the authorize middleware  *)
(* and the JWT service, fontAwesomeResize.ts lines 293-500.                *)

MaxHeader == 5

MaxScopes == 2

\* A value that may be null or undefined: <<>> when it is, <<v>> when not.
None == <<>>

Some(v) == <<v>>

\* The text of a header: "Bearer", a space, or the client's token.
HeaderAtoms == {"Bearer", " ", "jwt"}

RECURSIVE SeqsUpTo(_, _)
SeqsUpTo(S, n) ==
    IF n = 0 THEN {<<>>}
    ELSE LET shorter == SeqsUpTo(S, n - 1)
         IN  shorter \cup {Append(q, x) : q \in shorter, x \in S}

\* request.headers.get('authorization'): null when the header is not sent;
\* the value comes without leading or trailing whitespace.
HeaderValues ==
    {None} \cup
    {Some(h) : h \in {q \in SeqsUpTo(HeaderAtoms, MaxHeader) :
                          q # <<>> => (q[1] # " " /\ q[Len(q)] # " ")}}

\* What the client's token is: issued by the server and intact; not
\* verifiable with the server's key; or signed but with no id in the payload.
TokenKinds == {"valid", "forged", "noid"}

ScopeNames == {"user", "admin", "guest"}

\* The scopes column of the user's row.
ScopeLists == SeqsUpTo(ScopeNames, MaxScopes)

Routes == {"backend", "login", "auth", "admin"}

\* resolvers (lines 293-300): the queries wrapped with authorize().
Wrapped(route) == route \in {"auth", "admin"}

\* resolvers (lines 297-298): the second argument of authorize().
RouteScopes(route) ==
    IF route = "auth" THEN <<"user", "admin">> ELSE <<"admin">>

\* String.prototype.split(' ')
RECURSIVE Split(_)
Split(str) ==
    IF str = <<>> THEN << <<>> >>
    ELSE LET rest == Split(Tail(str))
         IN  IF Head(str) = " "
                THEN << <<>> >> \o rest
                ELSE << <<Head(str)>> \o rest[1] >> \o Tail(rest)

\* bearerAuth?.split(' ')[n], counting from 0
Part(bearerAuth, n) ==
    IF bearerAuth = None THEN None
    ELSE LET parts == Split(bearerAuth[1])
         IN  IF n + 1 <= Len(parts) THEN Some(parts[n + 1]) ELSE None

\* Array.prototype.includes
Includes(array, x) == \E k \in 1..Len(array) : array[k] = x

RECURSIVE ScanScopes(_, _, _)
ScanScopes(userScopes, requiredScopes, i) ==
    IF i > Len(userScopes) THEN FALSE
    ELSE IF Includes(requiredScopes, userScopes[i]) THEN TRUE
    ELSE ScanScopes(userScopes, requiredScopes, i + 1)

hasScopes_firstOnly(userScopes, requiredScopes) ==
    userScopes # <<>> /\ Includes(requiredScopes, userScopes[1])

\* JwtService.hasScopes (lines 488-496)
hasScopes(userScopes, requiredScopes) ==
    ScanScopes(userScopes, requiredScopes, 1)

\* jose.jwtVerify resolves for the token the server issued, when it is
\* intact and signed with the server's key.
JwtVerifies(accessToken, kind) ==
    accessToken = Some(<<"jwt">>) /\ kind # "forged"

AuthOff ==
    [pc |-> "off", route |-> "backend", header |-> None, kind |-> "valid",
     userScopes |-> <<>>, accessToken |-> None, invoked |-> FALSE,
     error |-> None]

\* The site's process before anything has been imported.
SiteStart ==
    /\ loaded = {}
    /\ hPc = 0
    /\ aPc = 0
    /\ caller = "none"
    /\ autoAddCss = TRUE
    /\ cssLoaded = FALSE
    /\ env = EmptyEnv
    /\ flagWrites = 0
    /\ iconRenders = 0
    /\ autoCssAdded = FALSE
    /\ headerRenders = 0
    /\ headerOut = <<>>
    /\ avatarRenders = 0
    /\ avatarOut = <<>>
    /\ socialRenders = 0
    /\ socialOut = <<>>
    /\ clicks = 0
    /\ otherImports = 0
    /\ consumerWrites = 0
    /\ peers = [w \in Peers |-> PeerStart]

\* The blog posts' scripts are not part of the site's process.
BlogOff ==
    /\ docker = DockerEmpty
    /\ main = MainOff
    /\ auth = AuthOff

Init ==
    /\ lit = SourceLiterals
    /\ SiteStart
    /\ BlogOff

\* The same program with other literals in the configuration source.
InitCfg ==
    /\ lit \in Configurations
    /\ SiteStart
    /\ BlogOff

renderVars ==
    <<iconRenders, autoCssAdded, headerRenders, headerOut, avatarRenders,
      avatarOut, socialRenders, socialOut, clicks>>

\* A page that uses the Header starts loading the component's module.
StartHeader ==
    /\ hPc = 0
    /\ aPc = 0
    /\ hPc' = 1
    /\ UNCHANGED <<lit, blog, consumerWrites, peers, loaded, aPc, caller, autoAddCss, cssLoaded, env,
                   flagWrites, renderVars, otherImports>>

\* A frontmatter import of a module that is already in the cache.
HeaderImportCached ==
    /\ hPc \in 1..Len(HeaderImports)
    /\ aPc = 0
    /\ IsCached(Resolve(HeaderImports[hPc]))
    /\ hPc' = hPc + 1
    /\ UNCHANGED <<lit, blog, consumerWrites, peers, loaded, aPc, caller, autoAddCss, cssLoaded, env,
                   flagWrites, renderVars, otherImports>>

\* A frontmatter import that starts the evaluation of the adapter module.
HeaderImportAdapter ==
    /\ hPc \in 1..Len(HeaderImports)
    /\ aPc = 0
    /\ Resolve(HeaderImports[hPc]) = Adapter
    /\ ~IsCached(Adapter)
    /\ aPc' = 1
    /\ caller' = "Header"
    /\ UNCHANGED <<lit, blog, consumerWrites, peers, loaded, hPc, autoAddCss, cssLoaded, env, flagWrites,
                   renderVars, otherImports>>

\* A frontmatter import of a component or library module.
HeaderImportLibrary ==
    /\ hPc \in 1..Len(HeaderImports)
    /\ aPc = 0
    /\ Resolve(HeaderImports[hPc]) # Adapter
    /\ ~IsCached(Resolve(HeaderImports[hPc]))
    /\ EvaluateLibrary(Resolve(HeaderImports[hPc]))
    /\ hPc' = hPc + 1
    /\ UNCHANGED <<lit, blog, consumerWrites, peers, aPc, caller, env, flagWrites, renderVars, otherImports>>

\* fontAwesomeResize.ts lines 10, 15, 20: the adapter's own imports.
AdapterImportStep ==
    /\ aPc \in 1..Len(AdapterImports)
    /\ IF IsCached(AdapterImports[aPc])
          THEN UNCHANGED <<loaded, autoAddCss, cssLoaded>>
          ELSE EvaluateLibrary(AdapterImports[aPc])
    /\ aPc' = aPc + 1
    /\ UNCHANGED <<lit, blog, consumerWrites, peers, hPc, caller, env, flagWrites, renderVars, otherImports>>

\* fontAwesomeResize.ts line 17: config.autoAddCss = false.
AdapterWriteFlag ==
    /\ aPc = FlagStep
    /\ autoAddCss' = WriteAutoAddCss(autoAddCss)
    /\ flagWrites' = flagWrites + 1
    /\ aPc' = aPc + 1
    /\ UNCHANGED <<lit, blog, consumerWrites, peers, loaded, hPc, caller, cssLoaded, env, renderVars,
                   otherImports>>

\* fontAwesomeResize.ts lines 22-66: one export declaration.
AdapterDeclare ==
    /\ aPc \in (FlagStep + 1)..LastStep
    /\ env' = Bind(env, BindingName(Declarations[aPc - FlagStep]),
                   lit[Declarations[aPc - FlagStep]])
    /\ aPc' = aPc + 1
    /\ UNCHANGED <<lit, blog, consumerWrites, peers, loaded, hPc, caller, autoAddCss, cssLoaded, flagWrites,
                   renderVars, otherImports>>

AdapterDone_waits ==
    /\ aPc = LastStep + 1
    /\ otherImports > 0
    /\ loaded' = loaded \cup {Adapter}
    /\ aPc' = 0
    /\ caller' = "none"
    /\ hPc' = IF caller = "Header" THEN hPc + 1 ELSE hPc
    /\ UNCHANGED <<lit, blog, consumerWrites, peers, autoAddCss, cssLoaded, env,
                   flagWrites, renderVars, otherImports>>

\* The adapter module's body has run to its end: the importer continues.
AdapterDone ==
    /\ aPc = LastStep + 1
    /\ loaded' = loaded \cup {Adapter}
    /\ aPc' = 0
    /\ caller' = "none"
    /\ hPc' = IF caller = "Header" THEN hPc + 1 ELSE hPc
    /\ UNCHANGED <<lit, blog, consumerWrites, peers, autoAddCss, cssLoaded, env, flagWrites, renderVars,
                   otherImports>>

\* Another component imports the adapter module before anyone else has.
OtherImportFirst ==
    /\ Idle
    /\ otherImports < MaxImports
    /\ ~IsCached(Adapter)
    /\ aPc' = 1
    /\ caller' = "other"
    /\ otherImports' = otherImports + 1
    /\ UNCHANGED <<lit, blog, consumerWrites, peers, loaded, hPc, autoAddCss, cssLoaded, env, flagWrites,
                   renderVars>>

\* Another component imports the adapter module when it is in the cache.
OtherImportCached ==
    /\ Idle
    /\ otherImports < MaxImports
    /\ IsCached(Adapter)
    /\ otherImports' = otherImports + 1
    /\ UNCHANGED <<lit, blog, consumerWrites, peers, loaded, hPc, aPc, caller, autoAddCss, cssLoaded, env,
                   flagWrites, renderVars>>

RenderHeader_writesFlag ==
    /\ hPc = HeaderLoaded
    /\ aPc = 0
    /\ headerRenders < MaxRenders
    /\ headerOut' = HeaderMarkup(env.SITE)
    /\ headerRenders' = headerRenders + 1
    /\ iconRenders' = iconRenders + IconCount(HeaderMarkup(env.SITE))
    /\ autoCssAdded' =
          (autoCssAdded \/ (IconCount(HeaderMarkup(env.SITE)) > 0 /\ autoAddCss))
    /\ autoAddCss' = TRUE
    /\ UNCHANGED <<lit, blog, consumerWrites, peers, loaded, hPc, aPc, caller,
                   cssLoaded, env, flagWrites, avatarRenders, avatarOut,
                   socialRenders, socialOut, clicks, otherImports>>

\* Header.astro lines 12-46: one render of the Header.  Each icon component
\* of the template is one render call into the icon library, which injects
\* its stylesheet when config.autoAddCss is on.
RenderHeader ==
    /\ hPc = HeaderLoaded
    /\ aPc = 0
    /\ headerRenders < MaxRenders
    /\ headerOut' = HeaderMarkup(env.SITE)
    /\ headerRenders' = headerRenders + 1
    /\ iconRenders' = iconRenders + IconCount(HeaderMarkup(env.SITE))
    /\ autoCssAdded' =
          (autoCssAdded \/ (IconCount(HeaderMarkup(env.SITE)) > 0 /\ autoAddCss))
    /\ UNCHANGED <<lit, blog, consumerWrites, peers, loaded, hPc, aPc, caller, autoAddCss, cssLoaded, env,
                   flagWrites, avatarRenders, avatarOut, socialRenders,
                   socialOut, clicks, otherImports>>

\* Header.astro lines 55-61: one render of ProfilePicture.
RenderProfilePicture ==
    /\ Idle
    /\ avatarRenders < MaxRenders
    /\ avatarOut' = ProfilePictureMarkup
    /\ avatarRenders' = avatarRenders + 1
    /\ UNCHANGED <<lit, blog, consumerWrites, peers, loaded, hPc, aPc, caller, autoAddCss, cssLoaded, env,
                   flagWrites, iconRenders, autoCssAdded, headerRenders,
                   headerOut, socialRenders, socialOut, clicks, otherImports>>

\* One render of the social-link list by a navigation component.
RenderSocials ==
    /\ Idle
    /\ "SOCIALS" \in DOMAIN env
    /\ socialRenders < MaxRenders
    /\ socialOut' = SocialsMarkup(env.SOCIALS)
    /\ socialRenders' = socialRenders + 1
    /\ UNCHANGED <<lit, blog, consumerWrites, peers, loaded, hPc, aPc, caller, autoAddCss, cssLoaded, env,
                   flagWrites, iconRenders, autoCssAdded, headerRenders,
                   headerOut, avatarRenders, avatarOut, clicks, otherImports>>

ClickSearch_rerender ==
    /\ Idle
    /\ headerRenders > 0
    /\ clicks < MaxClicks
    /\ clicks' = clicks + 1
    /\ headerOut' = <<>>
    /\ UNCHANGED <<lit, blog, consumerWrites, peers, loaded, hPc, aPc, caller,
                   autoAddCss, cssLoaded, env, flagWrites, iconRenders,
                   autoCssAdded, headerRenders, avatarRenders, avatarOut,
                   socialRenders, socialOut, otherImports>>

\* Header.astro lines 33-42: a click on the rendered search button.  The
\* Header attaches no handler to it.
ClickSearch ==
    /\ Idle
    /\ headerRenders > 0
    /\ clicks < MaxClicks
    /\ clicks' = clicks + 1
    /\ UNCHANGED <<lit, blog, consumerWrites, peers, loaded, hPc, aPc, caller, autoAddCss, cssLoaded, env,
                   flagWrites, iconRenders, autoCssAdded, headerRenders,
                   headerOut, avatarRenders, avatarOut, socialRenders,
                   socialOut, otherImports>>

\* The initialization statements of the adapter (lines 10-17) executed again
\* by a second initializer.
ReInit ==
    /\ Idle
    /\ IsCached(Adapter)
    /\ flagWrites < 1 + MaxReinit
    /\ autoAddCss' = WriteAutoAddCss(autoAddCss)
    /\ flagWrites' = flagWrites + 1
    /\ UNCHANGED <<lit, blog, consumerWrites, peers, loaded, hPc, aPc, caller, cssLoaded, env, renderVars,
                   otherImports>>

\* A consumer that imported the configuration assigns to a field of SITE,
\* of a page's Metadata or of an element of SOCIALS.  The objects are plain
\* literals: nothing freezes them.
ConsumerWrite ==
    /\ Idle
    /\ Adapter \in loaded
    /\ consumerWrites < MaxWrites
    /\ \/ \E t \in Titles :
             env' = [env EXCEPT !.SITE = AssignField(@, "TITLE", t)]
       \/ \E t \in Titles :
             env' = [env EXCEPT !.HOME = AssignField(@, "TITLE", t)]
       \/ \E i \in 1..Len(env.SOCIALS), b \in BOOLEAN :
             env' = [env EXCEPT !.SOCIALS[i] = AssignField(@, "end", b)]
    /\ consumerWrites' = consumerWrites + 1
    /\ UNCHANGED <<lit, blog, peers, loaded, hPc, aPc, caller, autoAddCss, cssLoaded,
                   flagWrites, renderVars, otherImports>>

\* The state of this worker process: everything but the peers.
thisWorker ==
    <<loaded, hPc, aPc, caller, autoAddCss, cssLoaded, env, flagWrites,
      renderVars, otherImports, consumerWrites>>

\* A peer worker evaluates the adapter's imports in its own process
\* (fontAwesomeResize.ts lines 10-15).
PeerImportLibraries(w) ==
    /\ peers[w].pc = "start"
    /\ peers' = [peers EXCEPT ![w] =
                    [@ EXCEPT !.pc = "imported", !.autoAddCss = TRUE,
                              !.cssLoaded = TRUE]]
    /\ UNCHANGED <<lit, blog, thisWorker>>

PeerWriteFlag_shared(w) ==
    /\ peers[w].pc = "imported"
    /\ autoAddCss' = WriteAutoAddCss(autoAddCss)
    /\ peers' = [peers EXCEPT ![w] =
                    [@ EXCEPT !.pc = "written", !.flagWrites = @ + 1]]
    /\ UNCHANGED <<lit, blog, loaded, hPc, aPc, caller, cssLoaded, env, flagWrites,
                   renderVars, otherImports, consumerWrites>>

\* A peer worker executes line 17 on its own config object.
PeerWriteFlag(w) ==
    /\ peers[w].pc = "imported"
    /\ peers' = [peers EXCEPT ![w] =
                    [@ EXCEPT !.pc = "written",
                              !.autoAddCss = WriteAutoAddCss(@),
                              !.flagWrites = @ + 1]]
    /\ UNCHANGED <<lit, blog, thisWorker>>

\* A peer worker evaluates the declarations (lines 22-66) into its own copy
\* of the configuration.
PeerDeclare(w) ==
    /\ peers[w].pc = "written"
    /\ peers' = [peers EXCEPT ![w] =
                    [@ EXCEPT !.pc = "ready",
                              !.env = DeclareAll(EmptyEnv, 1, lit)]]
    /\ UNCHANGED <<lit, blog, thisWorker>>

\* A peer worker renders the Header of one of its pages.
PeerRenderHeader(w) ==
    /\ peers[w].pc = "ready"
    /\ peers[w].iconRenders < MaxRenders
    /\ peers' = [peers EXCEPT ![w] =
                    [@ EXCEPT !.headerOut = HeaderMarkup(peers[w].env.SITE),
                              !.iconRenders =
                                  @ + IconCount(HeaderMarkup(peers[w].env.SITE))]]
    /\ UNCHANGED <<lit, blog, thisWorker>>

\* The steps of a module evaluation: once started it runs to its end.
LoadStep ==
    \/ HeaderImportCached
    \/ HeaderImportAdapter
    \/ HeaderImportLibrary
    \/ AdapterImportStep
    \/ AdapterWriteFlag
    \/ AdapterDeclare
    \/ AdapterDone

siteVars == <<lit, thisWorker, peers>>

\* main.py lines 269-272: connect and construct the services.
MainConnect ==
    /\ main.pc = "connect"
    /\ main' = [Enter(AfterPhase("connect"), docker) EXCEPT !.start = docker]
    /\ UNCHANGED <<siteVars, docker, auth>>

\* test.Service.images_exist (lines 185-192): images.get raises for an
\* image that is not on the host.
TestImagesExist ==
    /\ main.pc = "images_exist"
    /\ main' = IF Tagged(ImageList[main.i]) \in docker.images
                  THEN Advance(Len(ImageList), docker)
                  ELSE Raise
    /\ UNCHANGED <<siteVars, docker, auth>>

\* test.Service.containers_running (lines 194-202): containers.get raises
\* for a missing container, the assertion fails for one that is not running.
TestContainersRunning ==
    /\ main.pc = "containers_running"
    /\ main' = IF docker.containers[ContainerName(ContainerList[main.i])] = "running"
                  THEN Advance(Len(ContainerList), docker)
                  ELSE Raise
    /\ UNCHANGED <<siteVars, docker, auth>>

\* container.Service.delete (lines 157-164): stop and remove every container
\* of client.containers.list(); either call can raise.
ContainerDelete ==
    /\ main.pc = "container_delete"
    /\ IF main.todo = <<>>
          THEN /\ main' = Enter(AfterPhase(main.pc), docker)
               /\ docker' = docker
          ELSE \E outcome \in {"removed", "stop raised", "remove raised"} :
                  /\ docker' =
                        [docker EXCEPT !.containers[Head(main.todo)] =
                            CASE outcome = "removed" -> "absent"
                              [] outcome = "stop raised" -> @
                              [] outcome = "remove raised" -> "exited"]
                  /\ main' =
                        IF outcome = "removed"
                           THEN Logged([main EXCEPT !.todo = Tail(@)],
                                       "stop and remove", Head(main.todo))
                           ELSE Raise
    /\ UNCHANGED <<siteVars, auth>>

\* image.Service.delete (lines 112-119): images.remove for every image of
\* image.json; the call can raise.
ImageDelete ==
    /\ main.pc = "image_delete"
    /\ \/ /\ Tagged(ImageList[main.i]) \in docker.images
          /\ docker' = [docker EXCEPT !.images = @ \ {Tagged(ImageList[main.i])}]
          /\ main' = Logged(Advance(Len(ImageList), docker'),
                            "remove image", Tagged(ImageList[main.i]))
       \/ /\ docker' = docker
          /\ main' = Raise
    /\ UNCHANGED <<siteVars, auth>>

\* main.py lines 280-283: the bare except clause prints and falls through.
MainExcept ==
    /\ main.pc = "except"
    /\ main' = Enter(AfterPhase("except"), docker)
    /\ UNCHANGED <<siteVars, docker, auth>>

\* image.Service.download (lines 104-110): images.pull for every image; an
\* exception here is not caught and ends the script.
ImageDownload ==
    /\ main.pc = "download"
    /\ \/ /\ docker' = [docker EXCEPT !.images = @ \cup {Tagged(ImageList[main.i])}]
          /\ main' = Logged(Advance(Len(ImageList), docker'),
                            "pull", Tagged(ImageList[main.i]))
       \/ /\ docker' = docker
          /\ main' = [main EXCEPT !.pc = "aborted"]
    /\ UNCHANGED <<siteVars, auth>>

\* container.Service.run (lines 138-155): containers.run for every container
\* of container.json; it raises when the name is taken, and the exception
\* ends the script.
ContainerRun ==
    /\ main.pc = "run"
    /\ \/ /\ docker.containers[ContainerName(ContainerList[main.i])] = "absent"
          /\ docker' = [docker EXCEPT
                           !.containers[ContainerName(ContainerList[main.i])] = "running"]
          /\ main' = Logged(Advance(Len(ContainerList), docker'),
                            "run", ContainerName(ContainerList[main.i]))
       \/ /\ docker' = docker
          /\ main' = [main EXCEPT !.pc = "aborted"]
    /\ UNCHANGED <<siteVars, auth>>

NextDocker ==
    \/ MainConnect
    \/ TestImagesExist
    \/ TestContainersRunning
    \/ ContainerDelete
    \/ ImageDelete
    \/ MainExcept
    \/ ImageDownload
    \/ ContainerRun

InitDocker ==
    /\ lit = SourceLiterals
    /\ SiteStart
    /\ auth = AuthOff
    /\ docker \in DockerStates
    /\ main = [MainOff EXCEPT !.pc = "connect"]

\* One run of main.py on a host in any state.
SpecDocker == InitDocker /\ [][NextDocker]_vars

\* A query that is not wrapped (lines 295-296) reaches its resolver
\* directly.
ResolveUnwrapped ==
    /\ auth.pc = "request"
    /\ ~Wrapped(auth.route)
    /\ auth' = [auth EXCEPT !.pc = "next"]
    /\ UNCHANGED <<siteVars, docker, main>>

\* authorize (lines 420-423): read the header, take the token and assert
\* that the first part is 'Bearer'.
AuthorizeHeader ==
    /\ auth.pc = "request"
    /\ Wrapped(auth.route)
    /\ auth' = [auth EXCEPT
                  !.accessToken = Part(auth.header, 1),
                  !.pc = IF Part(auth.header, 0) = Some(<<"Bearer">>)
                            THEN "verify" ELSE "catch"]
    /\ UNCHANGED <<siteVars, docker, main>>

\* JwtService.verify (lines 442-449): jose.jwtVerify rejects a token it
\* cannot verify.
VerifyToken ==
    /\ auth.pc = "verify"
    /\ auth' = [auth EXCEPT
                  !.pc = IF JwtVerifies(auth.accessToken, auth.kind)
                            THEN "payload" ELSE "catch"]
    /\ UNCHANGED <<siteVars, docker, main>>

\* JwtService.verify (lines 450-456): the assertions on the header and the
\* payload of the verified token.
VerifyPayload ==
    /\ auth.pc = "payload"
    /\ auth' = [auth EXCEPT
                  !.pc = IF auth.kind = "valid" THEN "scopes" ELSE "catch"]
    /\ UNCHANGED <<siteVars, docker, main>>

\* JwtService.verify (lines 457-463): the user's scopes are read and
\* compared with the scopes the query requires.
VerifyScopes ==
    /\ auth.pc = "scopes"
    /\ auth' = [auth EXCEPT
                  !.pc = IF hasScopes(auth.userScopes, RouteScopes(auth.route))
                            THEN "next" ELSE "catch"]
    /\ UNCHANGED <<siteVars, docker, main>>

\* authorize (lines 424-427): the resolver is called; what it throws is
\* thrown inside the try block.
CallResolver ==
    /\ auth.pc = "next"
    /\ \E outcome \in {"returned"} \cup (IF Wrapped(auth.route) THEN {"catch"} ELSE {"thrown"}) :
          auth' = [auth EXCEPT !.invoked = TRUE, !.pc = outcome]
    /\ UNCHANGED <<siteVars, docker, main>>

\* authorize (lines 429-431)
AuthorizeCatch ==
    /\ auth.pc = "catch"
    /\ auth' = [auth EXCEPT !.pc = "thrown", !.error = Some("Unauthorized")]
    /\ UNCHANGED <<siteVars, docker, main>>

NextAuth ==
    \/ ResolveUnwrapped
    \/ AuthorizeHeader
    \/ VerifyToken
    \/ VerifyPayload
    \/ VerifyScopes
    \/ CallResolver
    \/ AuthorizeCatch

InitAuth ==
    /\ lit = SourceLiterals
    /\ SiteStart
    /\ docker = DockerEmpty
    /\ main = MainOff
    /\ \E route \in Routes, header \in HeaderValues, kind \in TokenKinds,
          userScopes \in ScopeLists :
          auth = [AuthOff EXCEPT !.pc = "request", !.route = route,
                                 !.header = header, !.kind = kind,
                                 !.userScopes = userScopes]

\* One query sent to the server.
SpecAuth == InitAuth /\ [][NextAuth]_vars

Next ==
    \/ StartHeader
    \/ HeaderImportCached
    \/ HeaderImportAdapter
    \/ HeaderImportLibrary
    \/ AdapterImportStep
    \/ AdapterWriteFlag
    \/ AdapterDeclare
    \/ AdapterDone
    \/ OtherImportFirst
    \/ OtherImportCached
    \/ RenderHeader
    \/ RenderProfilePicture
    \/ RenderSocials
    \/ ClickSearch

Spec == Init /\ [][Next]_vars

SpecCfg == InitCfg /\ [][Next]_vars

SpecTwice == Init /\ [][Next \/ ReInit]_vars

\* The program with a consumer that writes to the configuration.
SpecWrite == Init /\ [][Next \/ ConsumerWrite]_vars

\* A parallel build: this worker and its peers, interleaved arbitrarily.
NextWorkers ==
    \/ Next
    \/ \E w \in Peers : PeerImportLibraries(w)
    \/ \E w \in Peers : PeerWriteFlag(w)
    \/ \E w \in Peers : PeerDeclare(w)
    \/ \E w \in Peers : PeerRenderHeader(w)

SpecWorkers == Init /\ [][NextWorkers]_vars

\* Module evaluation is synchronous: a started evaluation is not suspended.
SpecFair == Init /\ [][Next]_vars /\ WF_vars(LoadStep)

TypeOK ==
    /\ loaded \subseteq ({Adapter} \cup {Resolve(HeaderImports[i]) : i \in 1..Len(HeaderImports)}
                         \cup {AdapterImports[i] : i \in 1..Len(AdapterImports)})
    /\ hPc \in 0..HeaderLoaded
    /\ aPc \in 0..(LastStep + 1)
    /\ caller \in {"none", "Header", "other"}
    /\ autoAddCss \in BOOLEAN
    /\ cssLoaded \in BOOLEAN
    /\ DOMAIN env \subseteq {BindingName(Declarations[i]) : i \in 1..Len(Declarations)}
    /\ autoCssAdded \in BOOLEAN
    /\ headerRenders \in 0..MaxRenders
    /\ avatarRenders \in 0..MaxRenders
    /\ socialRenders \in 0..MaxRenders
    /\ clicks \in 0..MaxClicks
    /\ otherImports \in 0..MaxImports

----------------------------------------------------------------------------
(* Properties *)

Letters ==
    {"a","b","c","d","e","f","g","h","i","j","k","l","m","n","o","p","q","r",
     "s","t","u","v","w","x","y","z"}

Digits == {"0","1","2","3","4","5","6","7","8","9"}

\* A scheme, "://", and a host that starts with a letter or a digit.
WellFormedURL(u) ==
    \E i \in 2..Len(u) :
        /\ u[i] = ":"
        /\ u[1] \in Letters
        /\ \A j \in 1..(i - 1) : u[j] \in Letters \cup Digits \cup {"+", "-", "."}
        /\ Len(u) >= i + 3
        /\ u[i + 1] = "/"
        /\ u[i + 2] = "/"
        /\ u[i + 3] \in Letters \cup Digits

\* The text occurs inside a Link element whose href is the given target.
TextInsideLink(markup, text, target) ==
    \E i, j \in 1..Len(markup) :
        /\ i < j
        /\ markup[i].k = "open"
        /\ markup[i].tag = "Link"
        /\ <<"href", target>> \in markup[i].attrs
        /\ markup[j].k = "text"
        /\ markup[j].text = text
        /\ \A m \in (i + 1)..(j - 1) :
              ~(markup[m].k = "close" /\ markup[m].tag = "Link")

\* The names of the rendered social links, in rendered order.
RenderedNames == [i \in 1..Len(socialOut) |-> socialOut[i].text]

\* C1: config.autoAddCss is false in every state after the adapter module
\* has been evaluated, every icon render call happens in a state where the
\* flag has already been written and is false, and the icon library never
\* injected its own stylesheet.
C1_FlagFalseBeforeIconRender ==
    /\ [](Adapter \in loaded => ~autoAddCss)
    /\ [](~autoCssAdded)
    /\ [][iconRenders' > iconRenders => (flagWrites >= 1 /\ ~autoAddCss)]_vars

C1_Witness == iconRenders > 0 /\ ~autoAddCss /\ Adapter \in loaded

\* C2: once the configuration module has been evaluated, no step of the
\* program (import, Header render, ProfilePicture render, click) changes any
\* binding of the configuration.
C2_ConfigReadOnly == [][(Adapter \in loaded) => (env' = env)]_vars

C2_Witness ==
    /\ Adapter \in loaded
    /\ headerRenders > 0
    /\ avatarRenders > 0
    /\ clicks > 0
    /\ otherImports > 0
    /\ env.HOME = HOME_2

C4_HrefWellFormed ==
    "SOCIALS" \in DOMAIN env =>
        \A i \in 1..Len(env.SOCIALS) :
            /\ env.SOCIALS[i].HREF # <<>>
            /\ WellFormedURL(env.SOCIALS[i].HREF)

C4_Witness == "SOCIALS" \in DOMAIN env /\ Len(env.SOCIALS) = 2 /\ Idle

\* C5: exactly one entry of SOCIALS has end = TRUE; it is LinkedIn, it is
\* the last entry, and GitHub's flag is FALSE.
C5_OneTerminator ==
    "SOCIALS" \in DOMAIN env =>
        /\ Cardinality({i \in 1..Len(env.SOCIALS) : env.SOCIALS[i].end}) = 1
        /\ \A i \in 1..Len(env.SOCIALS) :
              /\ env.SOCIALS[i].end <=> (i = Len(env.SOCIALS))
              /\ env.SOCIALS[i].NAME = "LinkedIn" => env.SOCIALS[i].end
              /\ env.SOCIALS[i].NAME = "GitHub" => ~env.SOCIALS[i].end

C5_Witness ==
    /\ "SOCIALS" \in DOMAIN env
    /\ \E i, j \in 1..Len(env.SOCIALS) :
          env.SOCIALS[i].NAME = "GitHub" /\ env.SOCIALS[j].NAME = "LinkedIn"

\* C6: after any render of the Header, its markup contains the text
\* "Simeon Tran", the value of SITE.TITLE, inside a Link whose href is "/".
C6_TitleInRootLink ==
    headerRenders > 0 =>
        /\ env.SITE.TITLE = "Simeon Tran"
        /\ TextInsideLink(headerOut, "Simeon Tran", "/")

C6_Witness == headerRenders > 0 /\ headerOut # <<>>

\* C7: a render of the Header that follows an earlier one produces exactly
\* the markup of the earlier one, whatever was rendered in between.
C7_RenderDeterministic ==
    [][(headerRenders > 0 /\ headerRenders' = headerRenders + 1)
          => headerOut' = headerOut]_vars

C7_Witness ==
    /\ headerRenders >= 2
    /\ avatarRenders > 0
    /\ socialRenders > 0
    /\ lit.SITE.TITLE = ""

\* C8: for every configuration, the markup of a Header render has a button
\* with id "magnifying-glass" and aria-label "Search".
C8_SearchLabel ==
    headerRenders > 0 =>
        \E i \in 1..Len(headerOut) :
            /\ headerOut[i].k = "open"
            /\ headerOut[i].tag = "button"
            /\ <<"id", "magnifying-glass">> \in headerOut[i].attrs
            /\ <<"aria-label", "Search">> \in headerOut[i].attrs

C8_Witness == headerRenders > 0 /\ lit.SITE.TITLE = "Search" /\ lit.SOCIALS = <<>>

\* C9: config.autoAddCss = false is executed at most once, and exactly once
\* before any icon has been rendered, however often the adapter is imported
\* and the Header rendered.
C9_InitOnce ==
    /\ flagWrites <= 1
    /\ iconRenders > 0 => flagWrites = 1
    /\ Adapter \in loaded => flagWrites = 1

C9_Witness ==
    /\ flagWrites = 1
    /\ otherImports >= 2
    /\ headerRenders >= 2

\* C10: executing the initialization again after it has been executed once
\* changes neither the flag nor the configuration nor anything else of the
\* process state.
C10_InitIdempotent ==
    [][(flagWrites >= 1 /\ flagWrites' = flagWrites + 1)
          => /\ autoAddCss' = autoAddCss
             /\ env' = env
             /\ UNCHANGED <<loaded, cssLoaded, hPc, aPc, renderVars>>]_vars

C10_Witness == flagWrites >= 2 /\ ~autoAddCss /\ "SOCIALS" \in DOMAIN env

\* C11: a configuration with a malformed social-link entry (one whose HREF
\* is empty) is refused at construction, so neither the Header nor the
\* social-link list is ever rendered from it.
C11_MalformedRejected ==
    (\E i \in 1..Len(lit.SOCIALS) : lit.SOCIALS[i].HREF = <<>>) =>
        /\ headerRenders = 0
        /\ socialRenders = 0

C13_EmptyTitleRenders ==
    /\ (hPc = HeaderLoaded /\ aPc = 0 /\ headerRenders < MaxRenders
           /\ env.SITE.TITLE = "") => ENABLED RenderHeader
    /\ (headerRenders > 0 /\ env.SITE.TITLE = "") =>
          /\ TextInsideLink(headerOut, "", "/")
          /\ headerOut[1] = Open("header", {<<"transition:persist", "">>})
          /\ headerOut[Len(headerOut)] = Close("header")

C13_Witness ==
    /\ headerRenders > 0
    /\ env.SITE.TITLE = ""
    /\ env.SITE.EMAIL = ""
    /\ Len(headerOut) > 2

\* C14: a render of the Header changes neither the configuration nor
\* config.autoAddCss nor any other process-wide state (module cache,
\* stylesheet, number of flag writes).
C14_RenderPure ==
    [][(headerRenders' # headerRenders)
          => /\ env' = env
             /\ autoAddCss' = autoAddCss
             /\ UNCHANGED <<lit, loaded, cssLoaded, flagWrites>>]_vars

C14_Witness ==
    /\ headerRenders >= 2
    /\ ~autoAddCss
    /\ env = DeclareAll(EmptyEnv, 1, SourceLiterals)

\* C15: the markup of every Header render has, in this order, the link to
\* "/" holding the site title, the link to /files/Simeon-Tran-CV.pdf, the
\* link to /blog and the button with id magnifying-glass.
C15_HeaderParts ==
    headerRenders > 0 =>
        /\ TextInsideLink(headerOut, env.SITE.TITLE, "/")
        /\ \E a \in 1..Len(headerOut) :
            /\ headerOut[a].tag = "Link"
            /\ <<"href", "/">> \in headerOut[a].attrs
            /\ \E b \in (a + 1)..Len(headerOut) :
                /\ headerOut[b].tag = "Link"
                /\ <<"href", "/files/Simeon-Tran-CV.pdf">> \in headerOut[b].attrs
                /\ \E c \in (b + 1)..Len(headerOut) :
                    /\ headerOut[c].tag = "Link"
                    /\ <<"href", "/blog">> \in headerOut[c].attrs
                    /\ \E d \in (c + 1)..Len(headerOut) :
                        /\ headerOut[d].tag = "button"
                        /\ <<"id", "magnifying-glass">> \in headerOut[d].attrs

C15_Witness ==
    /\ headerRenders > 0
    /\ TextInsideLink(headerOut, "CV", "/files/Simeon-Tran-CV.pdf")
    /\ TextInsideLink(headerOut, "Blog", "/blog")

\* C16: a click on the search button changes nothing of the Header's
\* output, the configuration or the icon subsystem.
C16_ClickStateless ==
    [][(clicks' # clicks)
          => UNCHANGED <<lit, env, loaded, hPc, aPc, autoAddCss, cssLoaded,
                         flagWrites, iconRenders, autoCssAdded, headerRenders,
                         headerOut>>]_vars

C16_Witness == clicks >= 2 /\ headerOut # <<>> /\ ~autoAddCss

\* C17: an assignment by a consumer to a field of the configuration leaves
\* the configuration as it was.
C17_Frozen == [][(consumerWrites' > consumerWrites) => (env' = env)]_vars

\* C18: in a parallel build a step of one worker changes no state of
\* another worker, and every worker renders icons only after it has itself
\* executed the flag write once and with its own flag false.
C18_WorkersIndependent ==
    [][/\ (peers' # peers) => UNCHANGED thisWorker
       /\ \A w \in Peers :
             (peers'[w] # peers[w]) =>
                 \A v \in Peers \ {w} : peers'[v] = peers[v]
       /\ \A w \in Peers :
             (peers'[w].iconRenders > peers[w].iconRenders) =>
                 (peers[w].flagWrites = 1 /\ ~peers[w].autoAddCss)
       /\ (iconRenders' > iconRenders) => (flagWrites = 1 /\ ~autoAddCss)]_vars

C18_Witness ==
    /\ iconRenders > 0
    /\ flagWrites = 1
    /\ \E w \in Peers : peers[w].iconRenders > 0 /\ peers[w].flagWrites = 1

\* The configuration is populated: every exported name is bound.
Populated ==
    DOMAIN env = {"baseUrl", "SITE", "HOME", "BLOG", "PROJECTS", "SOCIALS"}

C20_NoBlocking ==
    /\ []((aPc > 0 \/ hPc \in 1..Len(HeaderImports)) => ENABLED LoadStep)
    /\ []((Idle /\ avatarRenders < MaxRenders) => ENABLED RenderProfilePicture)
    /\ []((hPc = HeaderLoaded /\ aPc = 0 /\ headerRenders < MaxRenders)
             => ENABLED RenderHeader)
    /\ \A i \in 1..Len(HeaderImports) : (hPc = i) ~> (hPc = i + 1)
    /\ \A i \in 1..(LastStep + 1) : (aPc = i) ~> (aPc = 0)

C20_Witness ==
    /\ hPc = HeaderLoaded
    /\ otherImports = 0
    /\ headerRenders > 0
    /\ avatarRenders > 0

\* C21: config.autoAddCss is written, and is false, only in states where
\* styles.css has been imported; no icon is rendered without the stylesheet.
C21_StylesBeforeFlag ==
    /\ flagWrites > 0 => cssLoaded
    /\ ~autoAddCss => cssLoaded
    /\ iconRenders > 0 => (cssLoaded /\ ~autoCssAdded)

C21_Witness == iconRenders > 0 /\ ~autoAddCss /\ cssLoaded /\ flagWrites = 1

\* C22: once the flag has been written to false, no later step makes it
\* true again.
C22_FlagStaysFalse ==
    [][(flagWrites >= 1 /\ ~autoAddCss) => ~autoAddCss']_vars

C22_Witness ==
    /\ ~autoAddCss
    /\ headerRenders > 0
    /\ socialRenders > 0
    /\ clicks > 0
    /\ otherImports > 0

\* C23: the markup of a Header render equals the markup rendered from any
\* other configuration that has the same SITE.TITLE, whatever its SOCIALS,
\* descriptions, e-mail, page sizes and page metadata are.
C23_DependsOnTitleOnly ==
    headerRenders > 0 =>
        \A c \in Configurations :
            c.SITE.TITLE = lit.SITE.TITLE => HeaderMarkup(c.SITE) = headerOut

C23_Witness ==
    /\ headerRenders > 0
    /\ lit.SITE.DESCRIPTION # SITE.DESCRIPTION
    /\ lit.SOCIALS # SOCIALS

\* C24: every render of ProfilePicture, with or without a loaded
\* configuration, yields the same markup with exactly one Avatar (image
\* /profile-pixel-art-upscaled.png, rounded, bordered, size xl) and changes
\* neither the configuration nor the flag.
C24_AvatarConstant ==
    [][(avatarRenders' # avatarRenders)
          => /\ avatarRenders > 0 => avatarOut' = avatarOut
             /\ Cardinality({i \in 1..Len(avatarOut') :
                    avatarOut'[i].k = "open" /\ avatarOut'[i].tag = "Avatar"}) = 1
             /\ \E i \in 1..Len(avatarOut') :
                    /\ avatarOut'[i].tag = "Avatar"
                    /\ avatarOut'[i].attrs =
                          {<<"img", "/profile-pixel-art-upscaled.png">>,
                           <<"rounded", "true">>, <<"size", "xl">>,
                           <<"bordered", "true">>}
             /\ env' = env
             /\ autoAddCss' = autoAddCss]_vars

C24_Witness == avatarRenders >= 2 /\ env = EmptyEnv /\ autoAddCss

\* The position of a Docker call in the update: stop and remove the
\* containers, remove the images, pull the images, run the containers.
PhaseRank(op) ==
    CASE op = "stop and remove" -> 1
      [] op = "remove image" -> 2
      [] op = "pull" -> 3
      [] op = "run" -> 4

Did(op, item, upTo) ==
    \E k \in 1..upTo : main.log[k] = [op |-> op, item |-> item]

ConfiguredImages == {Tagged(ImageList[i]) : i \in 1..Len(ImageList)}

ConfiguredContainers == {ContainerName(ContainerList[i]) : i \in 1..Len(ContainerList)}

\* Every configured image was on the host and every configured container
\* was running when the script started.
AllPresentAtStart ==
    /\ ConfiguredImages \subseteq main.start.images
    /\ \A c \in ConfiguredContainers : main.start.containers[c] = "running"

BearerForm(header) ==
    /\ header # None
    /\ Len(header[1]) >= 3
    /\ header[1][1] = "Bearer"
    /\ header[1][2] = " "
    /\ \A k \in 3..Len(header[1]) : header[1][k] # " "

\* The token sent in a header of that form.
SentToken(header) == Some(SubSeq(header[1], 3, Len(header[1])))

\* At least one of the user's scopes is among the required scopes.
SharesScope(userScopes, requiredScopes) ==
    \E i \in 1..Len(userScopes), k \in 1..Len(requiredScopes) :
        userScopes[i] = requiredScopes[k]

\* The request passes what the middleware is meant to require.
Authorized ==
    /\ BearerForm(auth.header)
    /\ JwtVerifies(SentToken(auth.header), auth.kind)
    /\ auth.kind = "valid"
    /\ SharesScope(auth.userScopes, RouteScopes(auth.route))

\* C26: a wrapped resolver is invoked only for a header of the form
\* 'Bearer <token>' whose token verifies for the required scopes; every
\* other request ends with the error 'Unauthorized' and the resolver is
\* never invoked.
C26_ResolverOnlyAfterAuthorized ==
    Wrapped(auth.route) =>
        /\ (auth.invoked \/ auth.pc = "next") => Authorized
        /\ (auth.pc \in {"returned", "thrown"} /\ ~Authorized) =>
              (auth.error = Some("Unauthorized") /\ ~auth.invoked)

\* C27: hasScopes is true exactly when at least one of the user's scopes is
\* among the required scopes, and false otherwise, for a user without
\* scopes too.
C27_HasScopes ==
    auth.pc \in {"next", "catch", "returned", "thrown"} =>
        \A requiredScopes \in ScopeLists :
            /\ hasScopes(auth.userScopes, requiredScopes)
                  <=> SharesScope(auth.userScopes, requiredScopes)
            /\ auth.userScopes = <<>> => ~hasScopes(auth.userScopes, requiredScopes)

\* The scopes were compared for a user whose second scope is the only one
\* required, and the resolver was called.
C27_Witness ==
    /\ auth.invoked
    /\ Wrapped(auth.route)
    /\ Len(auth.userScopes) = 2
    /\ ~Includes(RouteScopes(auth.route), auth.userScopes[1])
    /\ Includes(RouteScopes(auth.route), auth.userScopes[2])

====
